---- MODULE Spec2Model ----
(***************************************************************************)
(* Model of src/src/crypto_wallet/crypto_wallet.py: the CryptoWallet       *)
(* facade over the bitcoinlib wallet backend.                              *)
(*                                                                         *)
(* State: one CryptoWallet instance (self), the backend's wallet database  *)
(* (db) and a record of the last public call (last: its outcome, return    *)
(* value, the backend calls it made and what held when it was entered).    *)
(* Every public method is one action; the backend (bitcoinlib) is the      *)
(* environment, modelled by the contract the facade's code relies on.      *)
(*                                                                         *)
(* Spec: calls made one after another.  No coroutine of the facade awaits  *)
(* anything but another coroutine of the facade, and every backend call is *)
(* synchronous, so calls scheduled on one event loop run one after another.*)
(* SpecRace: two callers on the same instance whose steps interleave       *)
(* (callers: where each one is), as two threads that each drive a          *)
(* coroutine of the instance can.                                          *)
(***************************************************************************)
EXTENDS Integers, Sequences, FiniteSets, TLC

VARIABLES self, db, last, callers

vars == <<self, db, last, callers>>

(***************************************************************************)
(* Bounds of the model.                                                    *)
(***************************************************************************)
\* Number of wallets the backend creates in one run (ids 1..MaxCreate).
MaxCreate == 1

(***************************************************************************)
(* Values.                                                                 *)
(***************************************************************************)
\* The wallet name of a run: every instance is made for this name.
Names == {"w1"}

\* Mnemonic phrases (each stands for a valid word list).
Mnemonics == {"m1", "m2"}

\* Passphrases a caller may construct the facade with: none (the default),
\* a valid mnemonic, or a string that is no mnemonic ("random" in the tests).
Passphrases == {"", "m1", "random"}

Networks == {"litecoin", "bitcoin"}

MainWallets == {"", "M9Ss"}

NoKey == [kind |-> "none", seed |-> "", n |-> 0]

\* HDKey.from_passphrase(p).private_hex: deterministic and injective in p.
KeyOf(p) == [kind |-> "seed", seed |-> p, n |-> 0]

\* The key bitcoinlib generates itself when Wallet.create gets no key.
RandomKey(id) == [kind |-> "random", seed |-> "", n |-> id]

\* self._wallet = None
None == [isWallet |-> FALSE, name |-> "", id |-> 0, key |-> NoKey, network |-> ""]

\* A loaded bitcoinlib Wallet object.
Handle(name, id, key, net) ==
    [isWallet |-> TRUE, name |-> name, id |-> id, key |-> key, network |-> net]

\* A row of the backend's wallet table; NoRow: no wallet of that name.
NoRow == [exists |-> FALSE, id |-> 0, key |-> NoKey, network |-> ""]

(***************************************************************************)
(* Strings that the code takes apart or builds are sequences of            *)
(* one-character strings; decimal.Decimal values are (sign, coefficient    *)
(* digits, exponent) triples, as in Decimal.as_tuple().                    *)
(***************************************************************************)
DigitChars == <<"0", "1", "2", "3", "4", "5", "6", "7", "8", "9">>

DigitVal(c) == CHOOSE i \in 0..9 : DigitChars[i + 1] = c

Chars(digs) == [i \in 1..Len(digs) |-> DigitChars[digs[i] + 1]]

Min(a, b) == IF a <= b THEN a ELSE b

Max(a, b) == IF a >= b THEN a ELSE b

Abs(n) == IF n < 0 THEN -n ELSE n

Zeros(n) == [i \in 1..n |-> 0]

\* Leading zeros removed, one digit kept: str(int(digits)).
StripZeros(d) ==
    IF \A i \in 1..Len(d) : d[i] = 0 THEN <<0>>
    ELSE LET k == CHOOSE i \in 1..Len(d) :
                      d[i] # 0 /\ \A j \in 1..(i - 1) : d[j] = 0
         IN  SubSeq(d, k, Len(d))

PadLeft(d, n) == Zeros(n - Len(d)) \o d

\* Decimal digits of a natural number.
RECURSIVE IntDigits(_)
IntDigits(n) == IF n < 10 THEN <<n>> ELSE IntDigits(n \div 10) \o <<n % 10>>

\* "%+d" % n
SignedIntStr(n) == <<IF n < 0 THEN "-" ELSE "+">> \o Chars(IntDigits(Abs(n)))

\* Comparison of two digit strings of equal length: -1, 0 or 1.
CmpDigits(x, y) ==
    IF \A i \in 1..Len(x) : x[i] = y[i] THEN 0
    ELSE LET k == CHOOSE i \in 1..Len(x) :
                      x[i] # y[i] /\ \A j \in 1..(i - 1) : x[j] = y[j]
         IN  IF x[k] < y[k] THEN -1 ELSE 1

\* Whether adding the digit strings x and y carries into place i (place
\* Len(x) is the last one, place 0 the new leading one).
CarryInto(x, y, i) ==
    \E j \in (i + 1)..Len(x) :
        x[j] + y[j] >= 10 /\ \A k \in (i + 1)..(j - 1) : x[k] + y[k] = 9

\* x + y for digit strings of equal length; one digit longer.
AddDigits(x, y) ==
    <<IF CarryInto(x, y, 0) THEN 1 ELSE 0>> \o
    [i \in 1..Len(x) |-> (x[i] + y[i] + IF CarryInto(x, y, i) THEN 1 ELSE 0) % 10]

\* Whether subtracting y from x borrows from place i.
BorrowFrom(x, y, i) ==
    \E j \in (i + 1)..Len(x) :
        x[j] < y[j] /\ \A k \in (i + 1)..(j - 1) : x[k] = y[k]

\* x - y for digit strings of equal length with x >= y.
SubDigits(x, y) ==
    [i \in 1..Len(x) |->
        LET s == x[i] - y[i] - IF BorrowFrom(x, y, i) THEN 1 ELSE 0
        IN  IF s < 0 THEN s + 10 ELSE s]

Dec(neg, dig, exp) == [neg |-> neg, dig |-> dig, exp |-> exp]

DecIsZero(d) == \A i \in 1..Len(d.dig) : d.dig[i] = 0

DecNegate(d) == Dec(~d.neg, d.dig, d.exp)

\* The precision of Python's default decimal context (getcontext().prec).
Prec == 28

\* The exact sum of two Decimals, at the smaller of the two exponents.
DecAddExact(a, b) ==
    LET e   == Min(a.exp, b.exp)
        da0 == a.dig \o Zeros(a.exp - e)
        db0 == b.dig \o Zeros(b.exp - e)
        n   == Max(Len(da0), Len(db0))
        da  == PadLeft(da0, n)
        dd  == PadLeft(db0, n)
        c   == CmpDigits(da, dd)
    IN  IF a.neg = b.neg THEN Dec(a.neg, StripZeros(AddDigits(da, dd)), e)
        ELSE IF c = 0 THEN Dec(FALSE, <<0>>, e)
        ELSE IF c > 0 THEN Dec(a.neg, StripZeros(SubDigits(da, dd)), e)
        ELSE Dec(b.neg, StripZeros(SubDigits(dd, da)), e)

\* The dropped digits against one half of the last kept place: -1, 0, 1.
CmpToHalf(rest) ==
    IF rest[1] > 5 THEN 1
    ELSE IF rest[1] < 5 THEN -1
    ELSE IF \E i \in 2..Len(rest) : rest[i] # 0 THEN 1 ELSE 0

\* Decimal._fix: the coefficient rounded to Prec digits, ROUND_HALF_EVEN.
DecFix(d) ==
    LET n == Len(d.dig)
    IN  IF n <= Prec THEN d
        ELSE LET keep == SubSeq(d.dig, 1, Prec)
                 half == CmpToHalf(SubSeq(d.dig, Prec + 1, n))
                 up   == half > 0 \/ (half = 0 /\ keep[Prec] % 2 = 1)
                 k2   == IF up THEN AddDigits(keep, PadLeft(<<1>>, Prec))
                         ELSE <<0>> \o keep
             IN  IF k2[1] = 0 THEN Dec(d.neg, Tail(k2), d.exp + n - Prec)
                 ELSE Dec(d.neg, SubSeq(k2, 1, Prec), d.exp + n - Prec + 1)

\* Decimal.__sub__ under the default context.
DecSub(a, b) == DecFix(DecAddExact(a, DecNegate(b)))

\* d < 0
DecLtZero(d) == d.neg /\ ~DecIsZero(d)

\* Decimal(0)
DecZero == Dec(FALSE, <<0>>, 0)

\* Decimal(n) for an int n.
DecimalFromInt(n) == Dec(n < 0, IntDigits(Abs(n)), 0)

IndexOf(s, c) ==
    IF \E i \in 1..Len(s) : s[i] = c
    THEN CHOOSE i \in 1..Len(s) : s[i] = c /\ \A j \in 1..(i - 1) : s[j] # c
    ELSE 0

\* int(s) for a numeral s: [+|-]digits
IntFromString(s) ==
    LET neg  == Len(s) > 0 /\ s[1] = "-"
        body == IF Len(s) > 0 /\ s[1] \in {"-", "+"} THEN Tail(s) ELSE s
        val[i \in 0..Len(body)] ==
            IF i = 0 THEN 0 ELSE 10 * val[i - 1] + DigitVal(body[i])
    IN  IF neg THEN -val[Len(body)] ELSE val[Len(body)]

\* Decimal(s) for a numeral s: [-]digits[.digits][E[+|-]digits]
DecimalFromString(s) ==
    LET neg  == Len(s) > 0 /\ s[1] = "-"
        e    == IndexOf(s, "E")
        mant == IF e = 0 THEN s ELSE SubSeq(s, 1, e - 1)
        exp  == IF e = 0 THEN 0 ELSE IntFromString(SubSeq(s, e + 1, Len(s)))
        body == IF neg THEN Tail(mant) ELSE mant
        dot  == IndexOf(body, ".")
        int  == IF dot = 0 THEN body ELSE SubSeq(body, 1, dot - 1)
        frac == IF dot = 0 THEN <<>> ELSE SubSeq(body, dot + 1, Len(body))
        all  == int \o frac
    IN  Dec(neg, StripZeros([i \in 1..Len(all) |-> DigitVal(all[i])]), exp - Len(frac))

\* str(d): Decimal.__str__ (scientific notation when the exponent is positive
\* or more than six places lie right of the point before the first digit).
DecStr(d) ==
    LET n          == Len(d.dig)
        leftdigits == d.exp + n
        dotplace   == IF d.exp <= 0 /\ leftdigits > -6 THEN leftdigits ELSE 1
        cs         == Chars(d.dig)
        intpart    == IF dotplace <= 0 THEN <<"0">>
                      ELSE IF dotplace >= n THEN cs \o Chars(Zeros(dotplace - n))
                      ELSE SubSeq(cs, 1, dotplace)
        fracpart   == IF dotplace <= 0 THEN <<".">> \o Chars(Zeros(-dotplace)) \o cs
                      ELSE IF dotplace >= n THEN <<>>
                      ELSE <<".">> \o SubSeq(cs, dotplace + 1, n)
        exppart    == IF leftdigits = dotplace THEN <<>>
                      ELSE <<"E">> \o SignedIntStr(leftdigits - dotplace)
    IN  (IF d.neg THEN <<"-">> ELSE <<>>) \o intpart \o fracpart \o exppart

\* s.split(): the maximal runs of non-blank characters of s.
RECURSIVE Split(_)
Split(s) ==
    IF s = <<>> THEN <<>>
    ELSE IF Head(s) = " " THEN Split(Tail(s))
    ELSE LET sp == IndexOf(s, " ")
         IN  IF sp = 0 THEN <<s>>
             ELSE <<SubSeq(s, 1, sp - 1)>> \o Split(SubSeq(s, sp + 1, Len(s)))

(***************************************************************************)
(* The backend (bitcoinlib), as the facade uses it.  db.store maps a       *)
(* wallet name to its row, db.nextId is the id the next wallet gets.       *)
(* Every backend operation returns [err, db, w]: the exception it raises   *)
(* ("" for none), the database afterwards and the Wallet object, if any.   *)
(***************************************************************************)
Exists(d, name) == d.store[name].exists

\* Wallet.create(name, keys=keys, network=net, owner=...): a used name
\* raises WalletError, and so does any other refusal of the backend (fault);
\* key material that is no key and no mnemonic raises an error that is no
\* WalletError.  Without keys the backend makes a key of its own.
WalletCreate(d, name, keys, net, fault) ==
    IF Exists(d, name) \/ fault
    THEN [err |-> "WalletError", db |-> d, w |-> None]
    ELSE IF keys # "" /\ keys \notin Mnemonics
    THEN [err |-> "BackendError", db |-> d, w |-> None]
    ELSE LET id  == d.nextId
             key == IF keys = "" THEN RandomKey(id) ELSE KeyOf(keys)
             row == [exists |-> TRUE, id |-> id, key |-> key, network |-> net]
         IN  [err |-> "",
              db  |-> [store |-> [d.store EXCEPT ![name] = row], nextId |-> id + 1],
              w   |-> Handle(name, id, key, net)]

\* Wallet(wallet=name, main_key_object=key): WalletError when no wallet has
\* that name or when the backend refuses the load (fault); the Wallet object
\* otherwise, holding the key object it was given.
WalletLoad(d, name, key, fault) ==
    IF ~Exists(d, name) \/ fault
    THEN [err |-> "WalletError", db |-> d, w |-> None]
    ELSE [err |-> "", db |-> d, w |-> Handle(name, d.store[name].id, key, d.store[name].network)]

\* wallet_delete(name): WalletError when no wallet has that name or when the
\* backend refuses to delete the one it finds (refuse: without force=True it
\* keeps a wallet that still holds unspent outputs); the row is deleted
\* otherwise and the number of deleted rows (1) is returned.
WalletDelete(d, name, refuse) ==
    IF ~Exists(d, name) \/ refuse
    THEN [err |-> "WalletError", db |-> d, n |-> 0]
    ELSE [err |-> "", db |-> [d EXCEPT !.store[name] = NoRow], n |-> 1]

\* Whether the Wallet object w still has its row in the backend.
Live(d, w) == w.isWallet /\ Exists(d, w.name) /\ d.store[w.name].id = w.id

\* HDKey.from_passphrase(passphrase): ValueError for a string that is no
\* mnemonic (tests/test_crypto_wallet.py, test_get_wallet_wrong_passphrase).
FromPassphrase(p) ==
    IF p \in Mnemonics THEN [err |-> "", key |-> KeyOf(p)]
    ELSE [err |-> "ValueError", key |-> NoKey]

(***************************************************************************)
(* The facade.  A call of a method is a record [exc, self, db, calls, ret]:*)
(* the exception that reaches the caller ("" when the method returns), the *)
(* instance and the backend as the call leaves them, the backend calls     *)
(* made, in order, and the value returned.  ret holds the value in the     *)
(* field of its type (b: bool, s: str, d: Decimal, addr: address, id and   *)
(* pass: the wallet id and passphrase of info's dict); for send_money it   *)
(* also holds the arguments of the call (argAmount, argAddress; empty when *)
(* omitted), what was handed to send_to (amount, to) and what send_to did  *)
(* (out), and seen is the balance string the backend gave; noHandle tells  *)
(* that the body of a method was entered while the handle was None.        *)
(***************************************************************************)
NoAddress == [wallet |-> 0]

NoRet == [b |-> FALSE, s |-> <<>>, d |-> DecZero, addr |-> NoAddress, id |-> 0,
          pass |-> "", amount |-> <<>>, to |-> "", seen |-> <<>>, out |-> "",
          argAmount |-> <<>>, argAddress |-> "", noHandle |-> FALSE]

Result(exc, s, d, calls, ret) ==
    [exc |-> exc, self |-> s, db |-> d, calls |-> calls, ret |-> ret]

\* The call r raises exc.
Raise(r, exc) == Result(exc, r.self, r.db, r.calls, NoRet)

\* The call r goes on with the backend calls `calls` and returns ret.
Return(r, calls, ret) == Result("", r.self, r.db, r.calls \o calls, ret)

\* The call r, made after the backend calls `calls`.
After(calls, r) == [r EXCEPT !.calls = calls \o r.calls]

\* The call l reaches a use of self._wallet (self._wallet.get_key(), .scan(),
\* .balance(), .as_dict(), .send_to()) while the handle is None:
\* AttributeError, before any backend call.
NoHandle(l) ==
    Result("AttributeError", l.self, l.db, l.calls, [NoRet EXCEPT !.noHandle = TRUE])

\* CryptoWallet.__init__
NewCryptoWallet(name, pass, main, net, fee) ==
    [network |-> net, wallet_name |-> name, passphrase |-> pass, wallet |-> None,
     wallet_id |-> 0, main_wallet |-> main, fee |-> fee]

\* A variant of _get_wallet_from_passphrase without its check of the
\* passphrase (C4 tells it from the method).
GetWalletFromPassphraseUnchecked(s, d, fault) ==
    IF FromPassphrase(s.passphrase).err # ""
    THEN [exc |-> FromPassphrase(s.passphrase).err, w |-> None,
          calls |-> <<"HDKey.from_passphrase">>]
    ELSE [exc |-> "",
          w |-> WalletLoad(d, s.wallet_name, FromPassphrase(s.passphrase).key, fault).w,
          calls |-> <<"HDKey.from_passphrase", "Wallet">>]

\* CryptoWallet._get_wallet_from_passphrase; w is the value it returns (None
\* after the WalletError it catches).
GetWalletFromPassphrase(s, d, fault) ==
    IF s.passphrase = ""
    THEN [exc |-> "PassphraseError", w |-> None, calls |-> <<>>]
    ELSE IF FromPassphrase(s.passphrase).err # ""
    THEN [exc |-> FromPassphrase(s.passphrase).err, w |-> None,
          calls |-> <<"HDKey.from_passphrase">>]
    ELSE [exc |-> "",
          w |-> WalletLoad(d, s.wallet_name, FromPassphrase(s.passphrase).key, fault).w,
          calls |-> <<"HDKey.from_passphrase", "Wallet">>]

\* A variant of load_data that leaves wallet_id alone, and returns, when
\* _get_wallet_from_passphrase gave None (C11 tells it from the method).
LoadDataSkippingNone(s, d, g) ==
    IF g.exc # "" THEN Result(g.exc, s, d, g.calls, NoRet)
    ELSE IF g.w = None
    THEN Result("", [s EXCEPT !.wallet = g.w], d, g.calls, NoRet)
    ELSE Result("", [s EXCEPT !.wallet = g.w, !.wallet_id = g.w.id], d, g.calls, NoRet)

\* load_data: self._wallet = wallet
AssignWallet(s, w) == [s EXCEPT !.wallet = w]

\* load_data: self._wallet_id = wallet.wallet_id, for a Wallet object w
\* (AttributeError when wallet is None).
AssignWalletId(s, w) == [s EXCEPT !.wallet_id = w.id]

\* CryptoWallet.load_data, from what _get_wallet_from_passphrase did (g).
LoadDataWith(s, d, g) ==
    IF g.exc # "" THEN Result(g.exc, s, d, g.calls, NoRet)
    ELSE IF g.w = None
    THEN Result("AttributeError", AssignWallet(s, g.w), d, g.calls, NoRet)
    ELSE Result("", AssignWalletId(AssignWallet(s, g.w), g.w), d, g.calls, NoRet)

\* CryptoWallet.load_data
LoadData(s, d, fault) == LoadDataWith(s, d, GetWalletFromPassphrase(s, d, fault))

\* A variant of _create_new_wallet that, refused with WalletError, makes up a
\* Wallet object of its own instead of leaving the handle alone (C3 tells it
\* from the method).
CreateNewWalletMakingUp(s, d, gen, c) ==
    IF c.err = "WalletError"
    THEN Result("", [s EXCEPT !.wallet = Handle(s.wallet_name, 0, NoKey, s.network)], d,
                <<"Mnemonic.generate", "Wallet.create">>, NoRet)
    ELSE IF c.err # ""
    THEN Result(c.err, s, d, <<"Mnemonic.generate", "Wallet.create">>, NoRet)
    ELSE Result("", [s EXCEPT !.wallet = c.w, !.passphrase = gen], c.db,
                <<"Mnemonic.generate", "Wallet.create">>, NoRet)

\* CryptoWallet._create_new_wallet, from what Wallet.create did (c); gen is
\* what Mnemonic().generate() returned.
CreateNewWalletWith(s, d, gen, c) ==
    IF c.err = "WalletError"
    THEN Result("", s, d, <<"Mnemonic.generate", "Wallet.create">>, NoRet)
    ELSE IF c.err # ""
    THEN Result(c.err, s, d, <<"Mnemonic.generate", "Wallet.create">>, NoRet)
    ELSE Result("", [s EXCEPT !.wallet = c.w, !.passphrase = gen], c.db,
                <<"Mnemonic.generate", "Wallet.create">>, NoRet)

\* CryptoWallet._create_new_wallet
CreateNewWallet(s, d, gen, fault) ==
    CreateNewWalletWith(s, d, gen,
        WalletCreate(d, s.wallet_name, s.passphrase, s.network, fault))

\* A variant of _get_or_create_wallet that returns after _create_new_wallet
\* whatever became of the handle (C1 tells it from the method).
GetOrCreateWalletNoLoad(c, lfault) == c

\* CryptoWallet._get_or_create_wallet, from what _create_new_wallet did (c).
GetOrCreateWalletWith(c, lfault) ==
    IF c.exc # "" \/ c.self.wallet # None THEN c
    ELSE After(c.calls, LoadData(c.self, c.db, lfault))

\* CryptoWallet._get_or_create_wallet (get_wallet)
GetOrCreateWallet(s, d, gen, cfault, lfault) ==
    GetOrCreateWalletWith(CreateNewWallet(s, d, gen, cfault), lfault)

\* A variant of _get_fee that charges the fee on every network (C6 tells it
\* from the method).
GetFeeAnyNetwork(s) == s.fee

\* CryptoWallet._get_fee
GetFee(s) == IF s.network = "litecoin" THEN s.fee ELSE DecZero

\* A variant of delete_wallet that reports success whatever wallet_delete
\* did (C8 tells it from the method).
DeleteWalletIgnoring(s, r) ==
    Result("", s, r.db, <<"wallet_delete">>, [NoRet EXCEPT !.b = TRUE])

\* CryptoWallet.delete_wallet, from what wallet_delete did (r).
DeleteWalletWith(s, r) ==
    Result("", s, r.db, <<"wallet_delete">>, [NoRet EXCEPT !.b = (r.err = "" /\ r.n # 0)])

\* CryptoWallet.delete_wallet
DeleteWallet(s, d, refuse) == DeleteWalletWith(s, WalletDelete(d, s.wallet_name, refuse))

(***************************************************************************)
(* The backend calls on a Wallet object w.  A Wallet object whose row has  *)
(* been deleted (not Live) is outside the backend's contract: such a call  *)
(* either raises (stale) or answers from what the object holds.            *)
(***************************************************************************)
\* The balances, in satoshi, a chain scan may find.
Balances == {0, 150000, 200000}

\* The number of satoshi in one coin.
Coin == 10 ^ 8

\* w.get_key().address: an opaque value, one per wallet row.
AddressOf(w) == [wallet |-> w.id]

\* w.balance(network=net), in satoshi, right after w.scan() has found the
\* chain to hold `found` for the wallet's keys.
BalanceOf(d, w, net, found) ==
    IF Live(d, w) /\ d.store[w.name].network = net THEN found ELSE 0

CurrencyCode(net) == IF net = "litecoin" THEN <<"L", "T", "C">> ELSE <<"B", "T", "C">>

\* A number of satoshi as coins with eight decimals: "0.00200000".
FormatSatoshi(n) ==
    Chars(IntDigits(n \div Coin)) \o <<".">> \o Chars(PadLeft(IntDigits(n % Coin), 8))

\* w.balance(as_string=True): "<amount> <currency>" in the wallet's network.
BalanceString(d, w, found) ==
    FormatSatoshi(BalanceOf(d, w, w.network, found)) \o <<" ">> \o CurrencyCode(w.network)

(***************************************************************************)
(* The decorated methods.  The wrapper of load_wallet_data runs first      *)
(* (LoadWalletData: l is the call so far); the method's body follows when  *)
(* the wrapper has not raised.                                             *)
(***************************************************************************)
\* A variant of the wrapper that calls load_data whatever the handle is (C15
\* tells it from the wrapper).
LoadWalletDataAlways(s, d, fault) == LoadData(s, d, fault)

\* The wrapper of load_wallet_data, up to the call of the wrapped method.
LoadWalletData(s, d, fault) ==
    IF s.wallet = None THEN LoadData(s, d, fault)
    ELSE Result("", s, d, <<>>, NoRet)

\* The body of get_wallet_address, after the wrapper (l).
GetWalletAddressAfter(l, stale) ==
    IF l.exc # "" THEN Raise(l, l.exc)
    ELSE IF l.self.wallet = None THEN NoHandle(l)
    ELSE IF stale /\ ~Live(l.db, l.self.wallet)
    THEN Raise(After(l.calls, Result("", l.self, l.db, <<"get_key">>, NoRet)), "BackendError")
    ELSE Return(l, <<"get_key">>, [NoRet EXCEPT !.addr = AddressOf(l.self.wallet)])

\* CryptoWallet.get_wallet_address
GetWalletAddress(s, d, lfault, stale) ==
    GetWalletAddressAfter(LoadWalletData(s, d, lfault), stale)

\* The body of get_wallet_balance, after the wrapper (l).
GetWalletBalanceAfter(l, stale, found) ==
    IF l.exc # "" THEN Raise(l, l.exc)
    ELSE IF l.self.wallet = None THEN NoHandle(l)
    ELSE IF stale /\ ~Live(l.db, l.self.wallet)
    THEN Raise(After(l.calls, Result("", l.self, l.db, <<"scan">>, NoRet)), "BackendError")
    ELSE Return(l, <<"scan", "balance">>,
                [NoRet EXCEPT !.d = DecimalFromInt(
                     BalanceOf(l.db, l.self.wallet, l.self.network, found))])

\* CryptoWallet.get_wallet_balance
GetWalletBalance(s, d, lfault, stale, found) ==
    GetWalletBalanceAfter(LoadWalletData(s, d, lfault), stale, found)

\* The string get_wallet_balance_with_fee makes of the backend's balance
\* string: Decimal(balance) - fee, not below zero, and the currency.
BalanceWithFee(fee, str) ==
    LET parts   == Split(str)
        balance == DecSub(DecimalFromString(parts[1]), fee)
        clamped == IF DecLtZero(balance) THEN DecZero ELSE balance
    IN  DecStr(clamped) \o <<" ">> \o parts[2]

\* Decimal(0.0015), the default of the fee parameter: the exact value of the
\* binary float nearest to 0.0015.
DefaultFee ==
    Dec(FALSE, <<1,5,0,0,0,0,0,0,0,0,0,0,0,0,0,0,0,3,1,2,2,5,0,2,2,5,6,7,5,8,
                 2,5,2,7,6,9,9,4,1,4,6,4,0,6,6,5,0,5,4,3,2,1,2,8,9,0,6,2,5>>, -61)

\* The fees a caller may configure: the default, and Decimal("0.0015").
Fees == {DefaultFee, DecimalFromString(<<"0", ".", "0", "0", "1", "5">>)}

\* BalanceWithFee, tabulated once over the fees and balance strings that occur.
BalanceWithFeeOf ==
    [fee \in Fees \cup {DecZero},
     str \in {FormatSatoshi(n) \o <<" ">> \o CurrencyCode(net) :
                 n \in Balances \cup {0}, net \in Networks}
        |-> BalanceWithFee(fee, str)]

\* The body of get_wallet_balance_with_fee, after the wrapper (l).
GetWalletBalanceWithFeeAfter(l, stale, found) ==
    IF l.exc # "" THEN Raise(l, l.exc)
    ELSE IF l.self.wallet = None THEN NoHandle(l)
    ELSE IF stale /\ ~Live(l.db, l.self.wallet)
    THEN Raise(After(l.calls, Result("", l.self, l.db, <<"scan">>, NoRet)), "BackendError")
    ELSE Return(l, <<"scan", "balance">>,
                [NoRet EXCEPT
                    !.s = BalanceWithFeeOf[GetFee(l.self),
                                           BalanceString(l.db, l.self.wallet, found)],
                    !.seen = BalanceString(l.db, l.self.wallet, found)])

\* CryptoWallet.get_wallet_balance_with_fee
GetWalletBalanceWithFee(s, d, lfault, stale, found) ==
    GetWalletBalanceWithFeeAfter(LoadWalletData(s, d, lfault), stale, found)

\* The dict of info, from the call l so far and its call a of get_wallet_address.
InfoWith(l, a) ==
    IF a.exc # "" THEN Raise(After(l.calls \o <<"as_dict">>, a), a.exc)
    ELSE Return(l, <<"as_dict">> \o a.calls,
                [NoRet EXCEPT !.id = l.self.wallet.id, !.pass = l.self.passphrase,
                              !.addr = a.ret.addr])

\* The body of info, after the wrapper (l).
InfoAfter(l, stale) ==
    IF l.exc # "" THEN Raise(l, l.exc)
    ELSE IF l.self.wallet = None THEN NoHandle(l)
    ELSE IF stale /\ ~Live(l.db, l.self.wallet)
    THEN Raise(After(l.calls, Result("", l.self, l.db, <<"as_dict">>, NoRet)), "BackendError")
    ELSE InfoWith(l, GetWalletAddress(l.self, l.db, FALSE, stale))

\* CryptoWallet.info
Info(s, d, lfault, stale) == InfoAfter(LoadWalletData(s, d, lfault), stale)

\* What the backend's send_to may do: return the transaction, or raise.
SendOutcomes == {"ok", "WalletError", "EncodingError", "TransactionError"}

\* A variant of the end of send_money that lets the errors of send_to reach
\* the caller (C7 tells it from the method).
SendToUncaught(a, address, out) ==
    IF a.exc # "" THEN Raise(a, a.exc)
    ELSE IF a.self.wallet = None THEN NoHandle(a)
    ELSE IF out # "ok" THEN Raise(After(a.calls, Result("", a.self, a.db, <<"send_to">>, NoRet)), out)
    ELSE Return(a, <<"send_to">>,
                [NoRet EXCEPT
                    !.b = TRUE,
                    !.amount = a.ret.s,
                    !.to = IF address = "" THEN a.self.main_wallet ELSE address,
                    !.seen = a.ret.seen,
                    !.out = out,
                    !.argAmount = a.ret.argAmount,
                    !.argAddress = address])

\* send_money from `if not address` on: a is the call so far, a.ret.s the
\* amount; out is what send_to does.
SendTo(a, address, out) ==
    IF a.exc # "" THEN Raise(a, a.exc)
    ELSE IF a.self.wallet = None THEN NoHandle(a)
    ELSE Return(a, <<"send_to">>,
                [NoRet EXCEPT
                    !.b = (out = "ok"),
                    !.amount = a.ret.s,
                    !.to = IF address = "" THEN a.self.main_wallet ELSE address,
                    !.seen = a.ret.seen,
                    !.out = out,
                    !.argAmount = a.ret.argAmount,
                    !.argAddress = address])

\* A variant of the amount of send_money that takes the whole balance, with
\* no fee held back, when no amount is given (C13 tells it from the method).
AmountOfWholeBalance(l, amount, stale, found) ==
    IF amount = <<>>
    THEN LET g == After(l.calls, GetWalletBalanceWithFee(l.self, l.db, FALSE, stale, found))
         IN  [g EXCEPT !.ret.s = g.ret.seen]
    ELSE Return(l, <<>>, [NoRet EXCEPT !.s = amount, !.argAmount = amount])

\* The amount of send_money: the one given, or get_wallet_balance_with_fee().
AmountOf(l, amount, stale, found) ==
    IF amount = <<>>
    THEN After(l.calls, GetWalletBalanceWithFee(l.self, l.db, FALSE, stale, found))
    ELSE Return(l, <<>>, [NoRet EXCEPT !.s = amount, !.argAmount = amount])

\* The body of send_money, after the wrapper (l).
SendMoneyAfter(l, amount, address, stale, found, out) ==
    IF l.exc # "" THEN Raise(l, l.exc)
    ELSE SendTo(AmountOf(l, amount, stale, found), address, out)

\* CryptoWallet.send_money
SendMoney(s, d, amount, address, lfault, stale, found, out) ==
    SendMoneyAfter(LoadWalletData(s, d, lfault), amount, address, stale, found, out)

(***************************************************************************)
(* The state machine.                                                      *)
(***************************************************************************)
\* The amounts and addresses a caller may pass to send_money ('': omitted).
Amounts == {<<>>, <<"0", ".", "0", "0", "1", " ", "L", "T", "C">>}

Addresses == {"", "LZT5"}

\* The environment's choices that a call can meet: a refused load only when
\* the call loads, a stale answer only when the held Wallet's row is gone.
LoadFaults == IF self.wallet = None THEN BOOLEAN ELSE {FALSE}

StaleFaults ==
    IF self.wallet # None /\ ~Live(db, self.wallet) THEN BOOLEAN ELSE {FALSE}

\* The record of the call r of method op: what it did, and what held when it
\* was entered.
Called(op, r) ==
    [op        |-> op,
     outcome   |-> IF r.exc = "" THEN "return" ELSE r.exc,
     calls     |-> r.calls,
     ret       |-> r.ret,
     preLoaded |-> self.wallet # None,
     prePass   |-> self.passphrase # "",
     preExists |-> Exists(db, self.wallet_name),
     prevDel   |-> last.op = "delete_wallet" /\ last.ret.b]

\* The concurrent callers of SpecRace, and a caller that has not called:
\* pc is its place in the wrapper, op the method it called, saw what it read
\* of the handle in the wrapper, w the local `wallet` of its load_data,
\* calls its backend calls, outcome how its call ended.
Callers == {1, 2}

Idle == [pc |-> "idle", op |-> "", saw |-> "", w |-> None, calls |-> <<>>,
         outcome |-> ""]

\* The call r of method op is made: the instance, the backend and the record
\* of the call afterwards.
Do(op, r) ==
    /\ r.db.nextId <= MaxCreate + 1
    /\ self' = r.self
    /\ db' = r.db
    /\ last' = Called(op, r)
    /\ callers' = callers

Init ==
    /\ \E name \in Names, pass \in Passphrases, main \in MainWallets,
          net \in Networks, fee \in Fees :
           self = NewCryptoWallet(name, pass, main, net, fee)
    /\ db = [store |-> [n \in Names |-> NoRow], nextId |-> 1]
    /\ last = [op |-> "__init__", outcome |-> "return", calls |-> <<>>,
               ret |-> NoRet, preLoaded |-> FALSE, prePass |-> FALSE,
               preExists |-> FALSE, prevDel |-> FALSE]
    /\ callers = [c \in Callers |-> Idle]

\* A new instance, made as the tests make it, with the defaults of the other
\* parameters: CryptoWallet(wallet_name=name, passphrase=pass)
construct ==
    \E name \in Names, pass \in Passphrases :
        /\ self' = NewCryptoWallet(name, pass, "", "litecoin", DefaultFee)
        /\ db' = db
        /\ last' = [op |-> "__init__", outcome |-> "return", calls |-> <<>>,
                    ret |-> NoRet, preLoaded |-> FALSE, prePass |-> FALSE,
                    preExists |-> FALSE, prevDel |-> FALSE]
        /\ callers' = callers

get_wallet ==
    \E gen \in Mnemonics, cfault \in BOOLEAN, lfault \in BOOLEAN :
        \E r \in {GetOrCreateWallet(self, db, gen, cfault, lfault)} :
            Do("get_wallet", r)

load_data ==
    \E lfault \in BOOLEAN :
        \E r \in {LoadData(self, db, lfault)} : Do("load_data", r)

get_wallet_address ==
    \E lfault \in LoadFaults, stale \in StaleFaults :
        \E r \in {GetWalletAddress(self, db, lfault, stale)} :
            Do("get_wallet_address", r)

get_wallet_balance ==
    \E lfault \in LoadFaults, stale \in StaleFaults, found \in Balances :
        \E r \in {GetWalletBalance(self, db, lfault, stale, found)} :
            Do("get_wallet_balance", r)

get_wallet_balance_with_fee ==
    \E lfault \in LoadFaults, stale \in StaleFaults, found \in Balances :
        \E r \in {GetWalletBalanceWithFee(self, db, lfault, stale, found)} :
            Do("get_wallet_balance_with_fee", r)

info ==
    \E lfault \in LoadFaults, stale \in StaleFaults :
        \E r \in {Info(self, db, lfault, stale)} : Do("info", r)

send_money ==
    \E amount \in Amounts, address \in Addresses, lfault \in LoadFaults,
       stale \in StaleFaults, out \in SendOutcomes :
        \E found \in (IF amount = <<>> THEN Balances ELSE {0}) :
            \E r \in {SendMoney(self, db, amount, address, lfault, stale, found, out)} :
                \* a Wallet whose row is gone has nothing to send
                /\ (out = "ok" /\ r.exc = "") => Live(db, r.self.wallet)
                /\ Do("send_money", r)

delete_wallet ==
    \E refuse \in (IF Exists(db, self.wallet_name) THEN BOOLEAN ELSE {FALSE}) :
        \E r \in {DeleteWallet(self, db, refuse)} : Do("delete_wallet", r)

\* self._get_fee(), called on its own (tests/test_crypto_wallet.py, test_get_fee)
get_fee ==
    \E r \in {Result("", self, db, <<>>, [NoRet EXCEPT !.d = GetFee(self)])} :
        Do("_get_fee", r)

\* wallet._network = network (tests/test_crypto_wallet.py, test_get_fee)
set_network ==
    \E net \in Networks :
        \E r \in {Result("", [self EXCEPT !.network = net], db, <<>>, NoRet)} :
            Do("_network", r)

\* The setter of main_wallet.
set_main_wallet ==
    \E value \in MainWallets :
        \E r \in {Result("", [self EXCEPT !.main_wallet = value], db, <<>>, NoRet)} :
            Do("main_wallet", r)

Next ==
    \/ construct
    \/ get_wallet
    \/ load_data
    \/ get_wallet_address
    \/ get_wallet_balance
    \/ get_wallet_balance_with_fee
    \/ info
    \/ send_money
    \/ delete_wallet
    \/ get_fee
    \/ set_network
    \/ set_main_wallet

Spec == Init /\ [][Next]_vars

(***************************************************************************)
(* Two callers on one instance.  A call of a decorated method is taken in  *)
(* the steps of the wrapper: the read of the handle, the backend load of   *)
(* load_data, each of the two assignments of load_data, and the body, one  *)
(* step for every use it makes of self._wallet.                            *)
(***************************************************************************)
\* The methods the concurrent callers call.
RaceOps == {"get_wallet_address", "get_wallet_balance"}

\* What the wrapper reads of the handle: `if not wallet`.
Seen(s) == IF s.wallet = None THEN "none" ELSE "wallet"

\* A variant of the wrapper's decision that reads the handle again before
\* it loads (C12 tells it from the wrapper).
WrapperLoadsRechecking(seen, s) == seen = "none" /\ s.wallet = None

\* Whether the wrapper calls load_data: decided by the handle it read (seen),
\* whatever the handle of the instance s has become since.
WrapperLoads(seen, s) == seen = "none"

\* The instance is new, and the backend holds no wallet of its name or one
\* that an earlier instance created.
RaceInit ==
    /\ \E name \in Names, pass \in Passphrases :
           /\ self = NewCryptoWallet(name, pass, "", "litecoin", DefaultFee)
           /\ \E keys \in {"", "m1"}, there \in BOOLEAN :
                  db = IF there
                       THEN WalletCreate([store |-> [n \in Names |-> NoRow], nextId |-> 1],
                                         name, keys, "litecoin", FALSE).db
                       ELSE [store |-> [n \in Names |-> NoRow], nextId |-> 1]
    /\ last = [op |-> "__init__", outcome |-> "return", calls |-> <<>>,
               ret |-> NoRet, preLoaded |-> FALSE, prePass |-> FALSE,
               preExists |-> FALSE, prevDel |-> FALSE]
    /\ callers = [c \in Callers |-> Idle]

\* Caller c calls a decorated method.
race_call(c) ==
    /\ callers[c].pc = "idle"
    /\ \E op \in RaceOps :
           callers' = [callers EXCEPT ![c] = [Idle EXCEPT !.pc = "wrapper", !.op = op]]
    /\ UNCHANGED <<self, db, last>>

\* wrapper: wallet = getattr(args[0], "_wallet")
race_read(c) ==
    /\ callers[c].pc = "wrapper"
    /\ callers' = [callers EXCEPT ![c].pc = "check", ![c].saw = Seen(self)]
    /\ UNCHANGED <<self, db, last>>

\* wrapper: if not wallet: await args[0].load_data(), up to the return of
\* _get_wallet_from_passphrase.
race_load(c) ==
    /\ callers[c].pc = "check"
    /\ \E fault \in BOOLEAN :
         \E g \in {GetWalletFromPassphrase(self, db, fault)} :
           callers' =
             IF ~WrapperLoads(callers[c].saw, self)
             THEN [callers EXCEPT ![c].pc = "body"]
             ELSE IF g.exc # ""
             THEN [callers EXCEPT ![c].pc = "done", ![c].calls = g.calls,
                                  ![c].outcome = g.exc]
             ELSE [callers EXCEPT ![c].pc = "assign", ![c].calls = g.calls,
                                  ![c].w = g.w]
    /\ UNCHANGED <<self, db, last>>

\* load_data: self._wallet = wallet
race_assign(c) ==
    /\ callers[c].pc = "assign"
    /\ self' = AssignWallet(self, callers[c].w)
    /\ callers' = [callers EXCEPT ![c].pc = "assign_id"]
    /\ UNCHANGED <<db, last>>

\* load_data: self._wallet_id = wallet.wallet_id, and the return to the
\* wrapper.
race_assign_id(c) ==
    /\ callers[c].pc = "assign_id"
    /\ IF callers[c].w = None
       THEN /\ callers' = [callers EXCEPT ![c].pc = "done",
                                          ![c].outcome = "AttributeError"]
            /\ self' = self
       ELSE /\ callers' = [callers EXCEPT ![c].pc = "body"]
            /\ self' = AssignWalletId(self, callers[c].w)
    /\ UNCHANGED <<db, last>>

\* wrapper: return await func(*args, **kwargs), up to the first use of
\* self._wallet: the whole body of get_wallet_address
\* (self._wallet.get_key().address), and self._wallet.scan() of
\* get_wallet_balance.
race_body(c) ==
    /\ callers[c].pc = "body"
    /\ \E r \in {GetWalletAddressAfter(
                    Result("", self, db, callers[c].calls, NoRet), FALSE)} :
         callers' =
           IF self.wallet = None
           THEN [callers EXCEPT ![c].pc = "done", ![c].outcome = "AttributeError"]
           ELSE IF callers[c].op = "get_wallet_address"
           THEN [callers EXCEPT ![c].pc = "done", ![c].calls = r.calls,
                                ![c].outcome = IF r.exc = "" THEN "return" ELSE r.exc]
           ELSE [callers EXCEPT ![c].pc = "balance",
                                ![c].calls = callers[c].calls \o <<"scan">>]
    /\ UNCHANGED <<self, db, last>>

\* get_wallet_balance: Decimal(self._wallet.balance(network=self._network)),
\* the second use of self._wallet, and the return.
race_balance(c) ==
    /\ callers[c].pc = "balance"
    /\ callers' =
         IF self.wallet = None
         THEN [callers EXCEPT ![c].pc = "done", ![c].outcome = "AttributeError"]
         ELSE [callers EXCEPT ![c].pc = "done", ![c].outcome = "return",
                              ![c].calls = callers[c].calls \o <<"balance">>]
    /\ UNCHANGED <<self, db, last>>

RaceNext ==
    \E c \in Callers :
        \/ race_call(c)
        \/ race_read(c)
        \/ race_load(c)
        \/ race_assign(c)
        \/ race_assign_id(c)
        \/ race_body(c)
        \/ race_balance(c)

SpecRace == RaceInit /\ [][RaceNext]_vars

(***************************************************************************)
(* The properties.  Each is a predicate on the state after a call: `last`  *)
(* tells which method was called, how it ended and what held at its entry. *)
(***************************************************************************)
\* The backend call c is among calls.
Has(calls, c) == \E i \in 1..Len(calls) : calls[i] = c

\* The last call was of method op and returned.
Returned(op) == last.op = op /\ last.outcome = "return"

\* The methods under the decorator load_wallet_data.
LazyOps == {"get_wallet_address", "get_wallet_balance",
            "get_wallet_balance_with_fee", "info", "send_money"}

\* The errors of send_to that send_money answers with False.
SendErrors == {"WalletError", "EncodingError", "TransactionError"}

\* C1: whenever get_wallet returns normally, the handle is populated (not
\* None) and is the backend Wallet of the facade's wallet name, both when
\* the wallet is newly created and when the name exists and is loaded.
C1_GetWalletPopulatesHandle ==
    Returned("get_wallet") =>
        /\ self.wallet # None
        /\ self.wallet.isWallet
        /\ self.wallet.name = self.wallet_name

\* C1, its case: get_wallet has returned on the load path, for a name that
\* existed, with the handle populated.
C1_Witness ==
    /\ Returned("get_wallet")
    /\ last.preExists /\ ~last.preLoaded
    /\ Has(last.calls, "Wallet.create") /\ Has(last.calls, "Wallet")
    /\ self.wallet # None /\ self.wallet.name = self.wallet_name

\* C2: after get_wallet has created a new wallet for a name, the passphrase
\* the facade exposes derives the key the wallet was created with.
C2_ExposedPassphraseIsCreationKey ==
    (Returned("get_wallet") /\ ~last.preExists /\ Exists(db, self.wallet_name)) =>
        /\ FromPassphrase(self.passphrase).err = ""
        /\ FromPassphrase(self.passphrase).key = db.store[self.wallet_name].key

\* C3, as stated: get_wallet on a name that exists in the backend falls back
\* to the load from the passphrase and yields a handle with the wallet id
\* that load_data with the same passphrase yields.
C3_ExistingNameFallsBackToLoad ==
    (Returned("get_wallet") /\ last.preExists) =>
        /\ Has(last.calls, "Wallet")
        /\ LoadData(self, db, FALSE).exc = ""
        /\ self.wallet.id = LoadData(self, db, FALSE).self.wallet.id

\* C3, amended: get_wallet on a name that exists in the backend, called on a
\* facade whose handle is not populated, falls back to the load from the
\* passphrase and yields a handle with the wallet id that load_data with the
\* same passphrase yields.
C3_UnloadedExistingNameFallsBackToLoad ==
    (Returned("get_wallet") /\ last.preExists /\ ~last.preLoaded) =>
        /\ Has(last.calls, "Wallet")
        /\ LoadData(self, db, FALSE).exc = ""
        /\ self.wallet.id = LoadData(self, db, FALSE).self.wallet.id

\* C3, its case: get_wallet has loaded the wallet of a name that existed and
\* holds the id of its row.
C3_Witness ==
    /\ Returned("get_wallet")
    /\ last.preExists /\ ~last.preLoaded
    /\ Has(last.calls, "Wallet")
    /\ self.wallet.id = db.store[self.wallet_name].id
    /\ self.wallet.id > 0

\* C4: a load with an empty passphrase (load_data, the lazy load of a
\* decorated method, the load get_wallet falls back to) fails with
\* PassphraseError without a key derivation or a wallet load in the backend,
\* and the handle stays None.
C4_EmptyPassphraseLoadFails ==
    /\ (/\ ~last.prePass
        /\ \/ last.op = "load_data"
           \/ last.op \in LazyOps /\ ~last.preLoaded) =>
            /\ last.outcome = "PassphraseError"
            /\ last.calls = <<>>
            /\ self.wallet = None
    /\ (~last.prePass /\ last.op = "get_wallet") =>
            /\ ~Has(last.calls, "HDKey.from_passphrase")
            /\ ~Has(last.calls, "Wallet")
            /\ last.outcome \in {"return", "PassphraseError"}
            /\ last.outcome = "PassphraseError" => self.wallet = None

\* C4, its case: a read of a facade without passphrase, for a name that
\* exists, has failed with PassphraseError.
C4_Witness ==
    /\ last.op = "get_wallet_balance"
    /\ ~last.prePass /\ last.preExists
    /\ last.outcome = "PassphraseError"
    /\ self.wallet = None

\* C5: get_wallet_balance_with_fee returns max(0, B - F) for the backend's
\* balance B and the fee F of _get_fee, never a negative amount, with the
\* backend's currency unchanged.
C5_BalanceWithFeeIsMaxOfZero ==
    Returned("get_wallet_balance_with_fee") =>
        LET got    == Split(last.ret.s)
            seen   == Split(last.ret.seen)
            exact  == DecAddExact(DecimalFromString(seen[1]), DecNegate(GetFee(self)))
            want   == IF DecLtZero(exact) THEN DecZero ELSE exact
            amount == DecimalFromString(got[1])
        IN  /\ ~DecLtZero(amount)
            /\ DecIsZero(DecAddExact(amount, DecNegate(want)))
            /\ got[2] = seen[2]

\* C6: _get_fee returns the configured fee when the network is 'litecoin'
\* and 0 on every other network, whatever the fee and whatever the network
\* was set to after construction.
C6_FeeOnlyOnLitecoin ==
    Returned("_get_fee") =>
        /\ self.network = "litecoin" => last.ret.d = self.fee
        /\ self.network # "litecoin" => last.ret.d = DecZero

\* C6, its case: _get_fee has returned 0 on a facade of another network with
\* a fee configured.
C6_Witness ==
    /\ Returned("_get_fee")
    /\ self.network = "bitcoin"
    /\ ~DecIsZero(self.fee)
    /\ last.ret.d = DecZero

\* C7: send_money whose send_to raises a wallet, encoding or transaction
\* error returns False and does not raise; it returns True only when send_to
\* completed.
C7_SendReportsBackendErrors ==
    (last.op = "send_money" /\ Has(last.calls, "send_to")) =>
        /\ last.outcome = "return"
        /\ last.ret.out \in SendErrors \cup {"ok"}
        /\ last.ret.out \in SendErrors => ~last.ret.b
        /\ last.ret.b => last.ret.out = "ok"

\* C7, its case: send_to has raised a transaction error and send_money has
\* returned False.
C7_Witness ==
    /\ Returned("send_money")
    /\ Has(last.calls, "send_to")
    /\ last.ret.out = "TransactionError"
    /\ ~last.ret.b

\* C8, as stated: delete_wallet returns False for a name that does not exist
\* and True for one that exists; after a True, a load of the name fails and
\* a second delete_wallet returns False.
C8_DeleteTrueIffExists ==
    /\ last.op = "delete_wallet" =>
            /\ last.outcome = "return"
            /\ last.ret.b = last.preExists
    /\ (last.prevDel /\ last.op = "load_data") => last.outcome # "return"
    /\ (last.prevDel /\ last.op = "delete_wallet") => ~last.ret.b

\* C8, amended: delete_wallet returns False for a name that does not exist;
\* for one that exists it returns True when the backend deletes the wallet
\* and False when the backend refuses with WalletError and keeps it; after a
\* True the name is gone, a load of it fails and a second delete_wallet
\* returns False.
C8_DeleteTrueIffDeleted ==
    /\ last.op = "delete_wallet" =>
            /\ last.outcome = "return"
            /\ ~last.preExists => ~last.ret.b
            /\ last.ret.b => (last.preExists /\ ~Exists(db, self.wallet_name))
            /\ ~last.ret.b => (Exists(db, self.wallet_name) = last.preExists)
    /\ (last.prevDel /\ last.op = "load_data") => last.outcome # "return"
    /\ (last.prevDel /\ last.op = "delete_wallet") => ~last.ret.b

\* C8, its case: right after a delete_wallet that returned True, a second
\* one has returned False.
C8_Witness ==
    /\ Returned("delete_wallet")
    /\ last.prevDel
    /\ ~last.preExists
    /\ ~last.ret.b

\* C9: over every method and every backend outcome, PassphraseError is the
\* only exception that reaches the caller; send and delete failures are
\* booleans.
C9_OnlyPassphraseErrorReachesCaller ==
    last.outcome \in {"return", "PassphraseError"}

\* C10: a populated handle is destroyed only by delete_wallet: a
\* delete_wallet that returned True leaves the facade without handle, and no
\* other call turns a populated handle into None.
C10_HandleDestroyedOnlyByDelete ==
    /\ (Returned("delete_wallet") /\ last.ret.b) => self.wallet = None
    /\ (last.preLoaded /\ self.wallet = None) =>
            (Returned("delete_wallet") /\ last.ret.b)

\* The backend calls that the bodies of the decorated methods make on the
\* handle.
BodyCalls == {"get_key", "scan", "balance", "as_dict", "send_to"}

\* The last call ran the body of a decorated method.
BodyRan == \E c \in BodyCalls : Has(last.calls, c)

\* C11: the handle is None until the first successful create or load, and
\* the body of get_wallet_address, get_wallet_balance,
\* get_wallet_balance_with_fee, info and send_money runs only with a handle:
\* with no handle at entry the load runs first, and when the load gives no
\* handle the body does not run.
C11_LazyLoadInvariant ==
    /\ last.op = "__init__" => self.wallet = None
    /\ (~last.preLoaded /\ self.wallet # None) =>
            /\ last.op \in LazyOps \cup {"get_wallet", "load_data"}
            /\ Has(last.calls, "Wallet.create") \/ Has(last.calls, "Wallet")
    /\ last.op \in LazyOps =>
            /\ ~last.ret.noHandle
            /\ BodyRan => self.wallet # None
            /\ (~last.preLoaded /\ last.prePass) =>
                    /\ Len(last.calls) >= 1
                    /\ last.calls[1] = "HDKey.from_passphrase"
            /\ (~last.preLoaded /\ BodyRan) =>
                    /\ Len(last.calls) >= 3
                    /\ last.calls[2] = "Wallet"
                    /\ last.calls[3] \in BodyCalls
            /\ self.wallet = None => (last.outcome # "return" /\ ~BodyRan)

\* C11, its case: a read without handle has run the load first, the load
\* has given no handle, and the body has not run.
C11_Witness ==
    /\ last.op = "get_wallet_address"
    /\ ~last.preLoaded
    /\ last.calls = <<"HDKey.from_passphrase", "Wallet">>
    /\ last.outcome # "return"
    /\ self.wallet = None

\* C12: calls on one instance are not coordinated: a caller that has read an
\* empty handle in the wrapper performs the load itself, whatever another
\* caller has made of the handle since; so two callers started on an
\* instance without handle can both read the empty handle and both load.
C12_LoadNotCoordinated ==
    \A c \in Callers :
        (callers[c].saw = "none"
            /\ callers[c].pc \in {"assign", "assign_id", "body", "balance", "done"}) =>
            \/ callers[c].outcome = "PassphraseError"
            \/ /\ Len(callers[c].calls) >= 1
               /\ callers[c].calls[1] = "HDKey.from_passphrase"

\* C12, its case: both callers have read the empty handle, both have loaded
\* the wallet from the backend and assigned the handle, and both have
\* returned.
C12_Witness ==
    /\ \A c \in Callers :
           /\ callers[c].saw = "none"
           /\ callers[c].pc = "done"
           /\ callers[c].outcome = "return"
           /\ Has(callers[c].calls, "Wallet")
           /\ callers[c].w # None
    /\ self.wallet # None

\* C13: send_money without amount hands send_to exactly the string that
\* get_wallet_balance_with_fee returns at that moment, and without address
\* the main_wallet configured at that moment; an amount or address that is
\* given is handed on unchanged.
C13_SendDefaults ==
    (last.op = "send_money" /\ Has(last.calls, "send_to")) =>
        /\ last.ret.argAmount # <<>> => last.ret.amount = last.ret.argAmount
        /\ last.ret.argAmount = <<>> =>
                /\ Has(last.calls, "scan")
                /\ last.ret.amount = BalanceWithFee(GetFee(self), last.ret.seen)
        /\ last.ret.argAddress # "" => last.ret.to = last.ret.argAddress
        /\ last.ret.argAddress = "" => last.ret.to = self.main_wallet

\* C13, its case: send_money without arguments has handed send_to a balance
\* less the fee and the configured main wallet.
C13_Witness ==
    /\ last.op = "send_money"
    /\ Has(last.calls, "send_to")
    /\ last.ret.argAmount = <<>> /\ last.ret.argAddress = ""
    /\ self.main_wallet = "M9Ss" /\ last.ret.to = "M9Ss"
    /\ last.ret.seen = <<"0", ".", "0", "0", "2", "0", "0", "0", "0", "0", " ", "L", "T", "C">>
    /\ last.ret.amount # last.ret.seen
    /\ last.ret.amount # <<"0", " ", "L", "T", "C">>

\* C14: in every state in which the handle is populated, by the create path
\* or by the load path, wallet_id is the id the backend gave the held wallet.
C14_WalletIdIsBackendId ==
    self.wallet # None => self.wallet_id = self.wallet.id

\* The methods that only read: address, balance, balance less the fee, info.
ReadOps == {"get_wallet_address", "get_wallet_balance",
            "get_wallet_balance_with_fee", "info"}

\* The step is a call of a read method on an instance that holds a handle.
ReadWithHandle == last'.op \in ReadOps /\ self.wallet # None

\* C15: a call of get_wallet_address, get_wallet_balance,
\* get_wallet_balance_with_fee or info on an instance whose handle is
\* populated performs no load, leaves handle, wallet_id, passphrase, network,
\* fee and main wallet as they were, and creates or deletes no wallet in the
\* backend.
C15_ReadFrame ==
    [][ReadWithHandle =>
            /\ self' = self
            /\ db' = db
            /\ last'.preLoaded
            /\ ~Has(last'.calls, "HDKey.from_passphrase")
            /\ ~Has(last'.calls, "Wallet")
            /\ ~Has(last'.calls, "Wallet.create")
            /\ ~Has(last'.calls, "wallet_delete")]_vars

\* C15, its case: info has returned on an instance that held its handle,
\* with the calls of its body only.
C15_Witness ==
    /\ Returned("info")
    /\ last.preLoaded
    /\ last.calls = <<"as_dict", "get_key">>
    /\ self.wallet # None

====
